---- MODULE Spec2Model ----
(***************************************************************************)
(* Order and table-reservation ledger of scripts/reservation_manager.py    *)
(* and scripts/order_manager.py over the shared row store (the worksheets  *)
(* "Reservations" and "Orders").                                           *)
(*                                                                         *)
(* A worksheet is the sequence of its data rows (row i of the sequence is  *)
(* sheet row i + 1, the header being sheet row 1).  Text cells that the    *)
(* code builds or takes apart (dates, identifiers) are sequences of        *)
(* one-character strings; the status cells are written in English:         *)
(*   "pending" = 待确认, "confirmed" = 已确认, "cancelled" = 已取消,       *)
(*   "preparing" = 制作中, "delivering" = 配送中, "completed" = 已完成.    *)
(* Every public operation is split at its accesses to the store: one       *)
(* action per get_all_records / append_row / update_cell, so that the      *)
(* calls of different processes interleave as they can in the deployment.  *)
(***************************************************************************)
EXTENDS Integers, Sequences, FiniteSets, TLC

VARIABLES
    reservations,   \* rows of worksheet "Reservations"
    orders,         \* rows of worksheet "Orders"
    today,          \* datetime.now().strftime("%Y%m%d"), the wall-clock day
    pc,             \* per caller: where its call stands
    loc,            \* per caller: the locals of the call in flight
    result,         \* the envelope of the call that returned last
    calls           \* calls begun so far

vars == <<reservations, orders, today, pc, loc, result, calls>>

----------------------------------------------------------------------------
(* Bounds of the model *)

MaxCalls == 4        \* calls begun by interleaved callers of both sheets
MaxBookRows == 2     \* Reservations rows under the booking desk's callers
MaxStoreRows == 2    \* rows of a Reservations sheet that was edited by hand
MaxAllocN == 999     \* same-day rows already in the sheet an identifier is minted for
MaxOrdRows == 2      \* Orders rows under the order desk's callers

Procs == {1, 2}

D20 == <<"2","0","2","4","-","0","1","-","2","0">>
D21 == <<"2","0","2","4","-","0","1","-","2","1">>
Dates == {D20, D21}

K16 == <<"2","0","2","4","0","1","1","6">>
K17 == <<"2","0","2","4","0","1","1","7">>
Days == <<K16, K17>>

\* --party-size is type=int; 0 is refused by main as a missing argument
PartySizes == {-3, 3, 5, 47, 53}
\* --max-capacity
Capacities == {40, 50}
\* --time-slot: a canonical value and one that differs from it by a trailing blank
ReqSlots == {"19:00-21:00", "19:00-21:00 "}

----------------------------------------------------------------------------
(* query_available_slots *)

DefaultMaxCapacity == 50

time_slots == <<"11:00-13:00", "13:00-15:00", "17:00-19:00", "19:00-21:00", "21:00-23:00">>

ActiveStatuses == {"pending", "confirmed"}

date_reservations_confirmed(all_reservations, date) ==
    SelectSeq(all_reservations,
              LAMBDA res : res.date = date /\ res.status = "confirmed")

date_reservations_any_status(all_reservations, date) ==
    SelectSeq(all_reservations, LAMBDA res : res.date = date)

date_reservations(all_reservations, date) ==
    SelectSeq(all_reservations,
              LAMBDA res : res.date = date /\ res.status \in ActiveStatuses)

RECURSIVE slot_occupancy(_, _)
slot_occupancy(rows, slot) ==
    IF rows = <<>> THEN 0
    ELSE (IF Head(rows).slot = slot THEN Head(rows).size ELSE 0)
         + slot_occupancy(Tail(rows), slot)

available_slots_clamped(all_reservations, date, max_capacity) ==
    [i \in 1..Len(time_slots) |->
        LET occupied == slot_occupancy(date_reservations(all_reservations, date),
                                       time_slots[i])
        IN  [slot |-> time_slots[i],
             occupied |-> occupied,
             remaining |-> IF max_capacity - occupied < 0 THEN 0
                           ELSE max_capacity - occupied]]

available_slots(all_reservations, date, max_capacity) ==
    [i \in 1..Len(time_slots) |->
        LET occupied == slot_occupancy(date_reservations(all_reservations, date),
                                       time_slots[i])
        IN  [slot |-> time_slots[i],
             occupied |-> occupied,
             remaining |-> max_capacity - occupied]]

----------------------------------------------------------------------------
(* identifiers *)

DigitChars == <<"0","1","2","3","4","5","6","7","8","9">>

RECURSIVE str(_)
str(n) ==
    IF n < 10 THEN <<DigitChars[n + 1]>>
    ELSE str(n \div 10) \o <<DigitChars[(n % 10) + 1]>>

RECURSIVE zfill(_, _)
zfill(s, width) ==
    IF Len(s) >= width THEN s ELSE zfill(<<"0">> \o s, width)

startswith(s, prefix) ==
    /\ Len(s) >= Len(prefix)
    /\ SubSeq(s, 1, Len(prefix)) = prefix

res_date_str(date) == SelectSeq(date, LAMBDA c : c # "-")

RES == <<"R","E","S">>
ORD == <<"O","R","D">>

today_count_all(rows, prefix) == Len(rows)

today_count(rows, prefix) ==
    Cardinality({i \in 1..Len(rows) : startswith(rows[i].id, prefix)})

reservation_id_active(existing_reservations, date) ==
    LET prefix == RES \o res_date_str(date)
        active == SelectSeq(existing_reservations, LAMBDA res : res.status # "cancelled")
    IN  prefix \o zfill(str(today_count(active, prefix) + 1), 3)

reservation_id(existing_reservations, date) ==
    LET prefix == RES \o res_date_str(date)
    IN  prefix \o zfill(str(today_count(existing_reservations, prefix) + 1), 3)

order_id(existing_orders, day) ==
    LET prefix == ORD \o day
    IN  prefix \o zfill(str(today_count(existing_orders, prefix) + 1), 3)

row_idx_last(rows, id) ==
    LET found == {i \in 1..Len(rows) : rows[i].id = id}
    IN  IF found = {} THEN 0 ELSE 1 + CHOOSE i \in found : \A j \in found : j <= i

row_idx_unchecked(rows, id) ==
    LET found == {i \in 1..Len(rows) : rows[i].id = id}
    IN  IF found = {}
        THEN (IF Len(rows) > 0 THEN 2 ELSE 0)
        ELSE 1 + CHOOSE i \in found : \A j \in found : i <= j

\* the first sheet row (header = row 1) whose id cell equals id; 0 = None
row_idx(rows, id) ==
    IF \E i \in 1..Len(rows) : rows[i].id = id
    THEN 1 + CHOOSE i \in 1..Len(rows) :
                /\ rows[i].id = id
                /\ \A j \in 1..(i - 1) : rows[j].id # id
    ELSE 0

update_cell_delete(rows, idx, value) ==
    IF idx - 1 \in 1..Len(rows)
    THEN SubSeq(rows, 1, idx - 2) \o SubSeq(rows, idx, Len(rows))
    ELSE rows

\* worksheet.update_cell(idx, status column, value); a cell below the last
\* data row lands in an otherwise empty row, which get_all_records drops
update_cell(rows, idx, value) ==
    IF idx - 1 \in 1..Len(rows)
    THEN [rows EXCEPT ![idx - 1].status = value]
    ELSE rows

----------------------------------------------------------------------------
(* envelopes and locals *)

NoLoc == [date |-> <<>>, slot |-> "", size |-> 0, id |-> <<>>, idx |-> 0,
          status |-> ""]

NoResult == [op |-> "none", caller |-> 0, success |-> FALSE, error |-> "", id |-> <<>>,
             status |-> "", remaining |-> 0, requested |-> 0, data |-> <<>>,
             date |-> <<>>]

Success(op, p, id, status) ==
    [NoResult EXCEPT !.op = op, !.caller = p, !.success = TRUE, !.id = id,
                     !.status = status]

Failure(op, p, error) == [NoResult EXCEPT !.op = op, !.caller = p, !.error = error]

Init ==
    /\ reservations = <<>>
    /\ orders = <<>>
    /\ today = 1
    /\ pc = [p \in Procs |-> "idle"]
    /\ loc = [p \in Procs |-> NoLoc]
    /\ result = NoResult
    /\ calls = 0

----------------------------------------------------------------------------
(* reservation_manager.py *)

\* main, --action query-slots
query_slots(p, date, max_capacity) ==
    /\ pc[p] = "idle"
    /\ result' = [NoResult EXCEPT !.op = "query_slots", !.caller = p, !.success = TRUE,
                                  !.data = available_slots(reservations, date, max_capacity),
                                  !.date = date]
    /\ UNCHANGED <<reservations, orders, today, pc, loc>>

slot_info_idx_first(available_data, time_slot) ==
    LET found == {i \in 1..Len(available_data) : available_data[i].slot = time_slot}
    IN  IF found = {} THEN 1 ELSE CHOOSE i \in found : \A j \in found : i <= j

\* the slot of available_data that the booking loop stops at; 0 = None
slot_info_idx(available_data, time_slot) ==
    LET found == {i \in 1..Len(available_data) : available_data[i].slot = time_slot}
    IN  IF found = {} THEN 0 ELSE CHOOSE i \in found : \A j \in found : i <= j

CharOrder == <<"-","0","1","2","3","4","5","6","7","8","9">>

CharRank(c) == CHOOSE i \in 1..Len(CharOrder) : CharOrder[i] = c

\* the decimal text of an integer, as Python's str writes it
text(n) == IF n < 0 THEN <<"-">> \o str(0 - n) ELSE str(n)

RECURSIVE text_less(_, _)
text_less(a, b) ==
    IF b = <<>> THEN FALSE
    ELSE IF a = <<>> THEN TRUE
    ELSE IF a[1] # b[1] THEN CharRank(a[1]) < CharRank(b[1])
    ELSE text_less(Tail(a), Tail(b))

\* the comparison on the texts of the two numbers
lacks_capacity_text(slot_info, party_size) ==
    text_less(text(slot_info.remaining), text(party_size))

\* if slot_info["剩余容量"] < party_size
lacks_capacity_le(slot_info, party_size) == slot_info.remaining <= party_size

lacks_capacity(slot_info, party_size) == slot_info.remaining < party_size

\* main, --action create: args.max_capacity is parsed and not handed on;
\* create_reservation up to its return or to the end of the admission check
create_reservation_check(p, date, time_slot, party_size, max_capacity) ==
    /\ pc[p] = "idle"
    /\ LET available_data == available_slots(reservations, date, DefaultMaxCapacity)
           k == slot_info_idx(available_data, time_slot)
       IN  IF k = 0
           THEN /\ result' = Failure("create_reservation", p, "invalid_slot")
                /\ UNCHANGED <<pc, loc>>
           ELSE IF lacks_capacity(available_data[k], party_size)
                THEN /\ result' = [Failure("create_reservation", p, "insufficient")
                                     EXCEPT !.remaining = available_data[k].remaining,
                                            !.requested = party_size]
                     /\ UNCHANGED <<pc, loc>>
                ELSE /\ pc' = [pc EXCEPT ![p] = "res_scan"]
                     /\ loc' = [loc EXCEPT ![p] =
                             [NoLoc EXCEPT !.date = date, !.slot = time_slot,
                                           !.size = party_size]]
                     /\ UNCHANGED result
    /\ UNCHANGED <<reservations, orders, today>>

\* existing_reservations = worksheet.get_all_records(); the identifier
create_reservation_scan(p) ==
    /\ pc[p] = "res_scan"
    /\ pc' = [pc EXCEPT ![p] = "res_append"]
    /\ loc' = [loc EXCEPT ![p].id = reservation_id(reservations, loc[p].date)]
    /\ UNCHANGED <<reservations, orders, today, result>>

reservation_data_pending(l) ==
    [id |-> l.id, date |-> l.date, slot |-> l.slot, size |-> l.size,
     status |-> "pending"]

reservation_data(l) ==
    [id |-> l.id, date |-> l.date, slot |-> l.slot, size |-> l.size,
     status |-> "confirmed"]

create_reservation_append_rechecked(p) ==
    /\ pc[p] = "res_append"
    /\ LET available_data == available_slots(reservations, loc[p].date, DefaultMaxCapacity)
           k == slot_info_idx(available_data, loc[p].slot)
       IN  IF lacks_capacity(available_data[k], loc[p].size)
           THEN /\ result' = [Failure("create_reservation", p, "insufficient")
                                EXCEPT !.remaining = available_data[k].remaining,
                                       !.requested = loc[p].size]
                /\ UNCHANGED reservations
           ELSE /\ reservations' = Append(reservations, reservation_data(loc[p]))
                /\ result' = Success("create_reservation", p, loc[p].id, "confirmed")
    /\ pc' = [pc EXCEPT ![p] = "idle"]
    /\ loc' = [loc EXCEPT ![p] = NoLoc]
    /\ UNCHANGED <<orders, today>>

create_reservation_append_top(p) ==
    /\ pc[p] = "res_append"
    /\ reservations' = <<reservation_data(loc[p])>> \o reservations
    /\ result' = Success("create_reservation", p, loc[p].id, "confirmed")
    /\ pc' = [pc EXCEPT ![p] = "idle"]
    /\ loc' = [loc EXCEPT ![p] = NoLoc]
    /\ UNCHANGED <<orders, today>>

\* worksheet.append_row(reservation_row) and the success envelope
create_reservation_append(p) ==
    /\ pc[p] = "res_append"
    /\ reservations' = Append(reservations, reservation_data(loc[p]))
    /\ result' = Success("create_reservation", p, loc[p].id, "confirmed")
    /\ pc' = [pc EXCEPT ![p] = "idle"]
    /\ loc' = [loc EXCEPT ![p] = NoLoc]
    /\ UNCHANGED <<orders, today>>

\* cancel_reservation up to its return or to the row it found
cancel_reservation_find(p, reservation_id_arg) ==
    /\ pc[p] = "idle"
    /\ LET res_row_idx == row_idx(reservations, reservation_id_arg)
       IN  IF res_row_idx = 0
           THEN /\ result' = [Failure("cancel_reservation", p, "not_found")
                                EXCEPT !.id = reservation_id_arg]
                /\ UNCHANGED <<pc, loc>>
           ELSE /\ pc' = [pc EXCEPT ![p] = "cancel_write"]
                /\ loc' = [loc EXCEPT ![p] =
                        [NoLoc EXCEPT !.id = reservation_id_arg, !.idx = res_row_idx]]
                /\ UNCHANGED result
    /\ UNCHANGED <<reservations, orders, today>>

cancel_reservation_write_once(p) ==
    /\ pc[p] = "cancel_write"
    /\ IF reservations[loc[p].idx - 1].status = "cancelled"
       THEN /\ result' = [Failure("cancel_reservation", p, "already_cancelled")
                            EXCEPT !.id = loc[p].id]
            /\ UNCHANGED reservations
       ELSE /\ reservations' = update_cell(reservations, loc[p].idx, "cancelled")
            /\ result' = Success("cancel_reservation", p, loc[p].id, "cancelled")
    /\ pc' = [pc EXCEPT ![p] = "idle"]
    /\ loc' = [loc EXCEPT ![p] = NoLoc]
    /\ UNCHANGED <<orders, today>>

\* worksheet.update_cell(res_row_idx, status_col_idx, "已取消")
cancel_reservation_write(p) ==
    /\ pc[p] = "cancel_write"
    /\ reservations' = update_cell(reservations, loc[p].idx, "cancelled")
    /\ result' = Success("cancel_reservation", p, loc[p].id, "cancelled")
    /\ pc' = [pc EXCEPT ![p] = "idle"]
    /\ loc' = [loc EXCEPT ![p] = NoLoc]
    /\ UNCHANGED <<orders, today>>

\* query_reservation by identifier: the rows that carry it
query_reservation(p, reservation_id_arg) ==
    /\ pc[p] = "idle"
    /\ result' = [NoResult EXCEPT !.op = "query_reservation", !.caller = p,
                                  !.success = TRUE, !.id = reservation_id_arg,
                                  !.data = SelectSeq(reservations,
                                              LAMBDA res : res.id = reservation_id_arg)]
    /\ UNCHANGED <<reservations, orders, today, pc, loc>>

----------------------------------------------------------------------------
(* order_manager.py *)

OrderStatuses == {"pending", "preparing", "delivering", "completed", "cancelled"}

\* create_order up to existing_orders = worksheet.get_all_records(); the identifier
create_order_scan(p) ==
    /\ pc[p] = "idle"
    /\ pc' = [pc EXCEPT ![p] = "ord_append"]
    /\ loc' = [loc EXCEPT ![p] = [NoLoc EXCEPT !.id = order_id(orders, Days[today])]]
    /\ UNCHANGED <<reservations, orders, today, result>>

order_data(l) == [id |-> l.id, status |-> "pending"]

create_order_append_retry(p) ==
    /\ pc[p] = "ord_append"
    /\ orders' = Append(Append(orders, order_data(loc[p])), order_data(loc[p]))
    /\ result' = Success("create_order", p, loc[p].id, "pending")
    /\ pc' = [pc EXCEPT ![p] = "idle"]
    /\ loc' = [loc EXCEPT ![p] = NoLoc]
    /\ UNCHANGED <<reservations, today>>

\* worksheet.append_row(order_row) and the success envelope
create_order_append(p) ==
    /\ pc[p] = "ord_append"
    /\ orders' = Append(orders, order_data(loc[p]))
    /\ result' = Success("create_order", p, loc[p].id, "pending")
    /\ pc' = [pc EXCEPT ![p] = "idle"]
    /\ loc' = [loc EXCEPT ![p] = NoLoc]
    /\ UNCHANGED <<reservations, today>>

update_order_status_find_guarded(p, order_id_arg, new_status) ==
    /\ pc[p] = "idle"
    /\ LET order_row_idx == row_idx(orders, order_id_arg)
       IN  IF order_row_idx = 0
           THEN /\ result' = [Failure("update_order_status", p, "not_found")
                                EXCEPT !.id = order_id_arg]
                /\ UNCHANGED <<pc, loc>>
           ELSE IF orders[order_row_idx - 1].status \in {"completed", "cancelled"}
                THEN /\ result' = [Failure("update_order_status", p, "bad_transition")
                                     EXCEPT !.id = order_id_arg]
                     /\ UNCHANGED <<pc, loc>>
                ELSE /\ pc' = [pc EXCEPT ![p] = "upd_write"]
                     /\ loc' = [loc EXCEPT ![p] =
                             [NoLoc EXCEPT !.id = order_id_arg, !.idx = order_row_idx,
                                           !.status = new_status]]
                     /\ UNCHANGED result
    /\ UNCHANGED <<reservations, orders, today>>

\* update_order_status up to its return or to the row it found
update_order_status_find(p, order_id_arg, new_status) ==
    /\ pc[p] = "idle"
    /\ LET order_row_idx == row_idx(orders, order_id_arg)
       IN  IF order_row_idx = 0
           THEN /\ result' = [Failure("update_order_status", p, "not_found")
                                EXCEPT !.id = order_id_arg]
                /\ UNCHANGED <<pc, loc>>
           ELSE /\ pc' = [pc EXCEPT ![p] = "upd_write"]
                /\ loc' = [loc EXCEPT ![p] =
                        [NoLoc EXCEPT !.id = order_id_arg, !.idx = order_row_idx,
                                      !.status = new_status]]
                /\ UNCHANGED result
    /\ UNCHANGED <<reservations, orders, today>>

\* worksheet.update_cell(order_row_idx, status_col_idx, new_status)
update_order_status_write(p) ==
    /\ pc[p] = "upd_write"
    /\ orders' = update_cell(orders, loc[p].idx, loc[p].status)
    /\ result' = Success("update_order_status", p, loc[p].id, loc[p].status)
    /\ pc' = [pc EXCEPT ![p] = "idle"]
    /\ loc' = [loc EXCEPT ![p] = NoLoc]
    /\ UNCHANGED <<reservations, today>>

\* query_order by identifier: the rows that carry it
query_order(p, order_id_arg) ==
    /\ pc[p] = "idle"
    /\ result' = [NoResult EXCEPT !.op = "query_order", !.caller = p,
                                  !.success = TRUE, !.id = order_id_arg,
                                  !.data = SelectSeq(orders,
                                              LAMBDA order : order.id = order_id_arg)]
    /\ UNCHANGED <<reservations, orders, today, pc, loc>>

----------------------------------------------------------------------------
(* except Exception: the store access a call is about to make raises *)

Operations ==
    {"query_slots", "create_reservation", "query_reservation", "cancel_reservation",
     "create_order", "query_order", "update_order_status"}

\* the operation whose call is at this store access
OperationAt(at) ==
    CASE at \in {"res_scan", "res_append"} -> "create_reservation"
      [] at = "cancel_write" -> "cancel_reservation"
      [] at = "ord_append" -> "create_order"
      [] at = "upd_write" -> "update_order_status"
      [] OTHER -> "none"

\* authorize, open_by_url, get_all_records or row_values raises in a call of op:
\* the handler returns the failure envelope
store_error(p, op) ==
    /\ pc[p] = "idle" \/ OperationAt(pc[p]) = op
    /\ result' = Failure(op, p, "exception")
    /\ pc' = [pc EXCEPT ![p] = "idle"]
    /\ loc' = [loc EXCEPT ![p] = NoLoc]
    /\ UNCHANGED <<reservations, orders, today>>

\* the wall clock passes midnight
midnight ==
    /\ today < Len(Days)
    /\ today' = today + 1
    /\ UNCHANGED <<reservations, orders, pc, loc, result>>

----------------------------------------------------------------------------
(* Interleaved callers: any caller may take its next store access at any time *)

\* identifiers a caller may ask for: those the sheet can hold and one more
ResIds(dates, n) == {RES \o res_date_str(d) \o zfill(str(i), 3) : d \in dates, i \in 1..(n + 1)}
OrdIds(n) == {ORD \o Days[k] \o zfill(str(i), 3) : k \in 1..Len(Days), i \in 1..(n + 1)}

MixDates == {D20}
MixSlots == {"19:00-21:00"}
MixSizes == {3, 47}
MixStatuses == {"completed", "pending"}
MixResIds == ResIds(MixDates, 2)
MixOrdIds == OrdIds(2)

Begin == calls < MaxCalls /\ calls' = calls + 1

\* caller p takes its next store access
Step(p) ==
    \/ \E d \in MixDates, s \in MixSlots, n \in MixSizes :
            Begin /\ create_reservation_check(p, d, s, n, DefaultMaxCapacity)
    \/ create_reservation_scan(p) /\ UNCHANGED calls
    \/ create_reservation_append(p) /\ UNCHANGED calls
    \/ \E id \in MixResIds : Begin /\ cancel_reservation_find(p, id)
    \/ cancel_reservation_write(p) /\ UNCHANGED calls
    \/ Begin /\ create_order_scan(p)
    \/ create_order_append(p) /\ UNCHANGED calls
    \/ \E id \in MixOrdIds, s \in MixStatuses : Begin /\ update_order_status_find(p, id, s)
    \/ update_order_status_write(p) /\ UNCHANGED calls

Tick == midnight /\ UNCHANGED calls

Next == (\E p \in Procs : Step(p)) \/ Tick

Spec == Init /\ [][Next]_vars

----------------------------------------------------------------------------
(* Serialized callers: a call begins only when no other call is in flight *)

Serial(p) == \A q \in Procs \ {p} : pc[q] = "idle"

StepSerial(p) ==
    \/ \E d \in MixDates, s \in MixSlots, n \in MixSizes :
            Serial(p) /\ Begin /\ create_reservation_check(p, d, s, n, DefaultMaxCapacity)
    \/ Serial(p) /\ create_reservation_scan(p) /\ UNCHANGED calls
    \/ Serial(p) /\ create_reservation_append(p) /\ UNCHANGED calls
    \/ \E id \in MixResIds : Serial(p) /\ Begin /\ cancel_reservation_find(p, id)
    \/ Serial(p) /\ cancel_reservation_write(p) /\ UNCHANGED calls
    \/ Serial(p) /\ Begin /\ create_order_scan(p)
    \/ Serial(p) /\ create_order_append(p) /\ UNCHANGED calls
    \/ \E id \in MixOrdIds, s \in MixStatuses :
            Serial(p) /\ Begin /\ update_order_status_find(p, id, s)
    \/ Serial(p) /\ update_order_status_write(p) /\ UNCHANGED calls

NextSerial == (\E p \in Procs : StepSerial(p)) \/ Tick

SpecSerial == Init /\ [][NextSerial]_vars

----------------------------------------------------------------------------
(* The booking desk: serialized callers of reservation_manager.py *)

BookingIds == ResIds(Dates, MaxBookRows)

StepBooking(p) ==
    \/ \E d \in Dates, s \in ReqSlots, n \in PartySizes, c \in Capacities :
            /\ Serial(p)
            /\ Len(reservations) < MaxBookRows
            /\ create_reservation_check(p, d, s, n, c)
            /\ UNCHANGED calls
    \/ Serial(p) /\ create_reservation_scan(p) /\ UNCHANGED calls
    \/ Serial(p) /\ create_reservation_append(p) /\ UNCHANGED calls
    \/ \E id \in BookingIds : Serial(p) /\ cancel_reservation_find(p, id) /\ UNCHANGED calls
    \/ Serial(p) /\ cancel_reservation_write(p) /\ UNCHANGED calls

\* one desk, one call after the other
Desk == {1}

NextBooking == \E p \in Desk : StepBooking(p)

SpecBooking == Init /\ [][NextBooking]_vars

----------------------------------------------------------------------------
(* Availability over a Reservations sheet that other tools or people edited *)

StoreSlots == {"19:00-21:00", "7pm"}
StoreSizes == {3, 47}
StoreStatuses == {"pending", "confirmed", "cancelled"}

\* what a row holds besides its identifier
StoreCells == [date : Dates, slot : StoreSlots, size : StoreSizes, status : StoreStatuses]

StoreRow(k, cells) ==
    [id |-> RES \o res_date_str(D20) \o zfill(str(k), 3), date |-> cells.date,
     slot |-> cells.slot, size |-> cells.size, status |-> cells.status]

InitStore ==
    /\ \E n \in 0..MaxStoreRows :
          \E sheet \in [1..n -> StoreCells] :
              reservations = [k \in 1..n |-> StoreRow(k, sheet[k])]
    /\ orders = <<>>
    /\ today = 1
    /\ pc = [p \in Procs |-> "idle"]
    /\ loc = [p \in Procs |-> NoLoc]
    /\ result = NoResult
    /\ calls = 0

NextStore ==
    \E p \in Desk, d \in Dates, c \in Capacities :
        query_slots(p, d, c) /\ UNCHANGED calls

SpecStore == InitStore /\ [][NextStore]_vars

----------------------------------------------------------------------------
(* The allocator over sheets that already hold up to MaxAllocN rows of the day *)

\* the identifier of row i where n rows were minted one after the other for
\* one prefix, after f rows of another day
MintedId(prefix, other, f, i) ==
    IF i <= f THEN other \o zfill(str(i), 3) ELSE prefix \o zfill(str(i - f), 3)

\* rows of another day that the sheet holds ahead of the day's rows
ForeignCounts == {0, 2}

InitAlloc ==
    /\ \E n \in 0..MaxAllocN, f \in ForeignCounts :
        /\ reservations =
              [i \in 1..(f + n) |->
                  [id |-> MintedId(RES \o res_date_str(D20), RES \o res_date_str(D21), f, i),
                   date |-> IF i <= f THEN D21 ELSE D20,
                   slot |-> "19:00-21:00", size |-> 3, status |-> "cancelled"]]
        /\ orders =
              [i \in 1..(f + n) |->
                  [id |-> MintedId(ORD \o K16, ORD \o K17, f, i), status |-> "completed"]]
    /\ today = 1
    /\ pc = [p \in Procs |-> "idle"]
    /\ loc = [p \in Procs |-> NoLoc]
    /\ result = NoResult
    /\ calls = 0

StepAlloc(p) ==
    \/ /\ calls = 0 /\ calls' = 1
       /\ create_reservation_check(p, D20, "19:00-21:00", 3, DefaultMaxCapacity)
    \/ create_reservation_scan(p) /\ UNCHANGED calls
    \/ create_reservation_append(p) /\ UNCHANGED calls
    \/ calls = 0 /\ calls' = 1 /\ create_order_scan(p)
    \/ create_order_append(p) /\ UNCHANGED calls

NextAlloc == \E p \in {1} : StepAlloc(p)

SpecAlloc == InitAlloc /\ [][NextAlloc]_vars

----------------------------------------------------------------------------
(* The order desk: serialized callers of order_manager.py, every status *)

OrderDeskIds == OrdIds(MaxOrdRows)

StepOrders(p) ==
    \/ Len(orders) < MaxOrdRows /\ create_order_scan(p) /\ UNCHANGED calls
    \/ create_order_append(p) /\ UNCHANGED calls
    \/ \E id \in OrderDeskIds, s \in OrderStatuses :
            update_order_status_find(p, id, s) /\ UNCHANGED calls
    \/ update_order_status_write(p) /\ UNCHANGED calls

NextOrders == \E p \in Desk : StepOrders(p)

SpecOrders == Init /\ [][NextOrders]_vars

----------------------------------------------------------------------------
(* One desk over both sheets and a store whose reads may raise *)

StepFaulty(p) ==
    \/ \E d \in MixDates : Begin /\ query_slots(p, d, DefaultMaxCapacity)
    \/ \E d \in MixDates, s \in ReqSlots, n \in MixSizes :
            Begin /\ create_reservation_check(p, d, s, n, DefaultMaxCapacity)
    \/ create_reservation_scan(p) /\ UNCHANGED calls
    \/ create_reservation_append(p) /\ UNCHANGED calls
    \/ \E id \in MixResIds : Begin /\ query_reservation(p, id)
    \/ \E id \in MixResIds : Begin /\ cancel_reservation_find(p, id)
    \/ cancel_reservation_write(p) /\ UNCHANGED calls
    \/ Begin /\ create_order_scan(p)
    \/ create_order_append(p) /\ UNCHANGED calls
    \/ \E id \in MixOrdIds : Begin /\ query_order(p, id)
    \/ \E id \in MixOrdIds, s \in MixStatuses : Begin /\ update_order_status_find(p, id, s)
    \/ update_order_status_write(p) /\ UNCHANGED calls
    \/ \E op \in Operations : pc[p] = "idle" /\ Begin /\ store_error(p, op)
    \/ pc[p] # "idle" /\ store_error(p, OperationAt(pc[p])) /\ UNCHANGED calls

NextFaulty == \E p \in Desk : StepFaulty(p)

SpecFaulty == Init /\ [][NextFaulty]_vars

----------------------------------------------------------------------------
(* Properties *)

CanonicalSlots ==
    {"11:00-13:00", "13:00-15:00", "17:00-19:00", "19:00-21:00", "21:00-23:00"}

RECURSIVE SumSizes(_, _)
SumSizes(rows, I) ==
    IF I = {} THEN 0
    ELSE LET i == CHOOSE i \in I : TRUE
         IN  rows[i].size + SumSizes(rows, I \ {i})

\* party sizes of the pending and confirmed rows of one date and slot
Occupied(rows, date, slot) ==
    SumSizes(rows, {i \in 1..Len(rows) :
                        /\ rows[i].date = date
                        /\ rows[i].status \in {"pending", "confirmed"}
                        /\ rows[i].slot = slot})

\* a call in flight only moves on to its next store access
CallProceeds(p) ==
    /\ pc[p] = "res_scan" => pc'[p] \in {"res_scan", "res_append"} /\ loc'[p].size = loc[p].size
    /\ pc[p] = "res_append" =>
          \/ pc'[p] = "res_append" /\ loc'[p] = loc[p]
          \/ /\ pc'[p] = "idle"
             /\ reservations' = Append(reservations,
                    [id |-> loc[p].id, date |-> loc[p].date, slot |-> loc[p].slot,
                     size |-> loc[p].size, status |-> "confirmed"])
             /\ result'.success /\ result'.op = "create_reservation"

\* C1: with the default ceiling of 50 a booking for a canonical slot is admitted
\* (goes on to append its row and return success) exactly when party_size <=
\* 50 - occupied(date, slot) on the rows read by the availability check, and is
\* otherwise refused with the remaining and the requested numbers.
C1_AdmitIffFits ==
    [][\A p \in Desk :
          /\ CallProceeds(p)
          /\ \A d \in Dates, s \in CanonicalSlots \cap ReqSlots, n \in PartySizes :
                create_reservation_check(p, d, s, n, 50) =>
                    LET remaining == 50 - Occupied(reservations, d, s)
                    IN  IF n <= remaining
                        THEN /\ pc'[p] = "res_scan"
                             /\ loc'[p].date = d /\ loc'[p].slot = s /\ loc'[p].size = n
                        ELSE /\ pc'[p] = "idle"
                             /\ reservations' = reservations
                             /\ ~result'.success
                             /\ result'.error = "insufficient"
                             /\ result'.remaining = remaining
                             /\ result'.requested = n]_vars

\* occupied 47: a party of 5 was refused with remaining 3, requested 5
C1_Witness ==
    /\ Occupied(reservations, D20, "19:00-21:00") = 47
    /\ result.op = "create_reservation"
    /\ result.error = "insufficient"
    /\ result.remaining = 3
    /\ result.requested = 5

\* C2: for every ceiling C handed to the booking command, the booking is refused
\* for lack of capacity exactly when party_size > C - occupied(date, slot).
C2_HonoursCeiling ==
    [][\A p \in Desk, d \in Dates, s \in CanonicalSlots \cap ReqSlots,
          n \in PartySizes, c \in Capacities :
          create_reservation_check(p, d, s, n, c) =>
              ((pc'[p] = "idle" /\ result'.error = "insufficient")
                  <=> n > c - Occupied(reservations, d, s))]_vars

\* C3: the append is not conditional on the store it meets: a caller that
\* passed the admission check appends its row, and the slot's occupancy grows
\* by its party size, whatever other callers appended since its read.
C3_AppendWithoutRecheck ==
    [][\A p \in Procs :
          (pc[p] = "res_append" /\ pc'[p] = "idle") =>
              /\ Len(reservations') = Len(reservations) + 1
              /\ Occupied(reservations', loc[p].date, loc[p].slot)
                    = Occupied(reservations, loc[p].date, loc[p].slot) + loc[p].size
              /\ result'.success]_vars

\* two parties of 47, each admitted against an empty slot, hold the same slot
C3_Witness ==
    \E i, j \in 1..Len(reservations) :
        /\ i < j
        /\ reservations[i].date = reservations[j].date
        /\ reservations[i].slot = reservations[j].slot
        /\ reservations[i].status = "confirmed" /\ reservations[j].status = "confirmed"
        /\ reservations[i].size = 47 /\ reservations[j].size = 47
        /\ 50 - Occupied(reservations, reservations[i].date, reservations[i].slot) < 0

\* C4: no slot of any date is oversold.
C4_NeverOversold ==
    \A d \in Dates, s \in CanonicalSlots : Occupied(reservations, d, s) <= 50

DupIds(rows) == \E i, j \in 1..Len(rows) : i < j /\ rows[i].id = rows[j].id

\* C5: once two rows of a sheet carry the same identifier, they do so after
\* every later step of every caller.
C5_DuplicatesStay ==
    [][/\ DupIds(reservations) => DupIds(reservations')
       /\ DupIds(orders) => DupIds(orders')]_vars

\* both sheets hold two rows with one identifier
C5_Witness == DupIds(reservations) /\ DupIds(orders)

\* C6: under serialized calls no two rows of a sheet share an identifier, no
\* row is removed and no row's identifier changes.
C6_UniqueImmutableIds ==
    /\ [](~DupIds(reservations) /\ ~DupIds(orders))
    /\ [][/\ Len(reservations') >= Len(reservations)
          /\ \A i \in 1..Len(reservations) : reservations'[i].id = reservations[i].id
          /\ Len(orders') >= Len(orders)
          /\ \A i \in 1..Len(orders) : orders'[i].id = orders[i].id]_vars

\* a reservation was cancelled and the next one of its date took the next number
C6_Witness ==
    /\ Len(reservations) = 2
    /\ reservations[1].status = "cancelled"
    /\ reservations[1].date = reservations[2].date
    /\ reservations[1].id # reservations[2].id
    /\ Len(orders) = 1

Numerals == <<"0","1","2","3","4","5","6","7","8","9">>

RECURSIVE Numeral(_)
Numeral(s) ==
    IF s = <<>> THEN 0
    ELSE 10 * Numeral(SubSeq(s, 1, Len(s) - 1))
         + ((CHOOSE k \in 1..10 : Numerals[k] = s[Len(s)]) - 1)

\* identifier = 3 letters, 8 digits of the day, sequence number
SameDay(rows, letters, key) ==
    {i \in 1..Len(rows) : SubSeq(rows[i].id, 1, 3) = letters
                          /\ SubSeq(rows[i].id, 4, 11) = key}

\* id is letters + key + number, the number written with at least 3 digits,
\* zeros in front only to fill up to 3
IsNextId(id, letters, key, number) ==
    /\ Len(id) >= 14
    /\ SubSeq(id, 1, 3) = letters
    /\ SubSeq(id, 4, 11) = key
    /\ \A k \in 12..Len(id) : \E c \in 1..10 : Numerals[c] = id[k]
    /\ Len(id) > 14 => id[12] # "0"
    /\ Numeral(SubSeq(id, 12, Len(id))) = number

Key20240116 == <<"2","0","2","4","0","1","1","6">>
Key20240120 == <<"2","0","2","4","0","1","2","0">>

\* C7: an identifier minted over N rows of its prefix and day is prefix + day +
\* (N + 1) zero-padded to 3 digits; rows of other days do not count.
C7_NextIdIsCountPlusOne ==
    /\ (result.op = "create_order" /\ result.success) =>
          IsNextId(result.id, <<"O","R","D">>, Key20240116,
                   Cardinality(SameDay(orders, <<"O","R","D">>, Key20240116)))
    /\ (result.op = "create_reservation" /\ result.success) =>
          IsNextId(result.id, <<"R","E","S">>, Key20240120,
                   Cardinality(SameDay(reservations, <<"R","E","S">>, Key20240120)))

\* the 1000th order of the day was minted in a sheet that also holds other days' rows
C7_Witness ==
    /\ result.op = "create_order" /\ result.success
    /\ Cardinality(SameDay(orders, <<"O","R","D">>, Key20240116)) = 1000
    /\ Len(orders) > 1000

RECURSIVE SumOccupied(_)
SumOccupied(data) ==
    IF data = <<>> THEN 0 ELSE Head(data).occupied + SumOccupied(Tail(data))

RECURSIVE SumRemaining(_)
SumRemaining(data) ==
    IF data = <<>> THEN 0 ELSE Head(data).remaining + SumRemaining(Tail(data))

\* C9: every reported slot has occupied + remaining = C, and the five slots
\* together have sum(remaining) + sum(occupied) = 5 * C.
C9_OccupiedPlusRemaining ==
    [][\A p \in Desk, d \in Dates, c \in Capacities :
          query_slots(p, d, c) =>
              /\ \A i \in 1..Len(result'.data) :
                    result'.data[i].occupied + result'.data[i].remaining = c
              /\ SumRemaining(result'.data) + SumOccupied(result'.data) = 5 * c]_vars

\* an oversold slot is reported with a negative remaining capacity
C9_Witness ==
    /\ result.op = "query_slots"
    /\ \E i \in 1..Len(result.data) :
          result.data[i].occupied > 0 /\ result.data[i].remaining < 0

\* what the next availability computation reports for one date and slot
Reported(rows, date, slot) ==
    LET data == available_slots(rows, date, DefaultMaxCapacity)
    IN  data[CHOOSE i \in 1..Len(data) : data[i].slot = slot]

\* the cancel call of p writes its cell in this step
CancelWrites(p) == pc[p] = "cancel_write" /\ pc'[p] = "idle"

\* C10 as stated: every cancellation lowers the occupancy of the reservation's
\* date and slot by its party size and leaves every other date and slot alone.
C10_CancelLowersOccupancy ==
    [][\A p \in Procs :
          CancelWrites(p) =>
              LET row == reservations[loc[p].idx - 1]
              IN  \A d \in Dates, s \in CanonicalSlots :
                      Reported(reservations', d, s).occupied
                          = Reported(reservations, d, s).occupied
                            - (IF d = row.date /\ s = row.slot THEN row.size ELSE 0)]_vars

\* C10 amended: cancelling a pending or confirmed reservation lowers the
\* occupancy of its date and slot by its party size, and raises the remaining
\* capacity by as much, on the next availability computation; cancelling a
\* reservation that is already cancelled changes no occupancy; every other
\* date and slot is left alone.
C10_CancelOfActiveLowersOccupancy ==
    [][\A p \in Procs :
          CancelWrites(p) =>
              LET row == reservations[loc[p].idx - 1]
                  freed == IF row.status \in {"pending", "confirmed"} THEN row.size ELSE 0
              IN  \A d \in Dates, s \in CanonicalSlots :
                      LET delta == IF d = row.date /\ s = row.slot THEN freed ELSE 0
                      IN  /\ Reported(reservations', d, s).occupied
                                = Reported(reservations, d, s).occupied - delta
                          /\ Reported(reservations', d, s).remaining
                                = Reported(reservations, d, s).remaining + delta]_vars

\* a party of 47 was cancelled and another party of 47 holds its slot
C10_Witness ==
    /\ Len(reservations) = 2
    /\ reservations[1].status = "cancelled" /\ reservations[1].size = 47
    /\ reservations[2].status = "confirmed" /\ reservations[2].size = 47
    /\ reservations[1].date = reservations[2].date
    /\ reservations[1].slot = reservations[2].slot

\* the first row (sheet order) of rows that carries id; 0 = none
FirstWithId(rows, id) ==
    LET found == {i \in 1..Len(rows) : rows[i].id = id}
    IN  IF found = {} THEN 0 ELSE CHOOSE i \in found : \A j \in found : i <= j

\* C11: cancellation is idempotent. Whatever the status of the reservation, the
\* cancel of an existing identifier returns the same success envelope and
\* leaves a store in which the same row is found again and already reads
\* cancelled; a cancel that meets a row already cancelled changes neither the
\* store nor any availability result.
C11_CancelIdempotent ==
    [][\A p \in Desk :
          CancelWrites(p) =>
              LET k == FirstWithId(reservations, loc[p].id)
              IN  /\ k > 0 /\ k = loc[p].idx - 1
                  /\ result'.success
                  /\ result'.op = "cancel_reservation"
                  /\ result'.id = loc[p].id
                  /\ result'.status = "cancelled"
                  /\ FirstWithId(reservations', loc[p].id) = k
                  /\ reservations'[k].status = "cancelled"
                  /\ [reservations' EXCEPT ![k].status = "cancelled"] = reservations'
                  /\ reservations[k].status = "cancelled" =>
                        /\ reservations' = reservations
                        /\ \A d \in Dates, s \in CanonicalSlots :
                              Reported(reservations', d, s) = Reported(reservations, d, s)]_vars

\* a second cancel of a reservation is about to write the cell that the first
\* cancel already set
C11_Witness ==
    \E p \in Desk :
        /\ pc[p] = "cancel_write"
        /\ reservations[loc[p].idx - 1].status = "cancelled"
        /\ result.op = "cancel_reservation" /\ result.success
        /\ result.id = loc[p].id

\* C12: a reservation row is appended with status confirmed; the only change any
\* step makes to a stored row is to set its status to cancelled; a cancelled row
\* stays cancelled and is left out of the occupancy that the availability
\* computation reports; no step removes or replaces a row.
C12_ReservationLifecycle ==
    [][/\ Len(reservations') >= Len(reservations)
       /\ \A i \in 1..Len(reservations) :
             /\ reservations'[i].status \in {reservations[i].status, "cancelled"}
             /\ reservations[i].status = "cancelled" => reservations'[i].status = "cancelled"
             /\ [reservations'[i] EXCEPT !.status = reservations[i].status] = reservations[i]
       /\ \A i \in (Len(reservations) + 1)..Len(reservations') :
             reservations'[i].status = "confirmed"
       /\ \A d \in MixDates, s \in MixSlots :
             Reported(reservations', d, s).occupied =
                 SumSizes(reservations',
                          {i \in 1..Len(reservations') :
                              /\ reservations'[i].date = d /\ reservations'[i].slot = s
                              /\ reservations'[i].status # "cancelled"})]_vars

\* a party was booked after another was cancelled: the cancelled row is still
\* there, still cancelled, and only the new party is counted
C12_Witness ==
    /\ Len(reservations) = 2
    /\ reservations[1].status = "cancelled"
    /\ reservations[2].status = "confirmed"
    /\ result.op = "create_reservation" /\ result.success
    /\ result.id = reservations[2].id
    /\ Reported(reservations, D20, "19:00-21:00").occupied = reservations[2].size

\* C13: update_order_status enforces no transition table. For every existing
\* order identifier, every stored status and every requested status s the call
\* goes on to its write, the write stores s in the row found and returns
\* success; a newly created order is stored as pending.
C13_NoTransitionTable ==
    [][\A p \in Desk :
          /\ \A id \in OrderDeskIds, s \in OrderStatuses :
                (update_order_status_find(p, id, s) /\ FirstWithId(orders, id) > 0) =>
                    /\ pc'[p] = "upd_write"
                    /\ loc'[p].id = id
                    /\ loc'[p].status = s
                    /\ loc'[p].idx = FirstWithId(orders, id) + 1
          /\ pc[p] = "upd_write" =>
                \/ pc'[p] = "upd_write" /\ loc'[p] = loc[p]
                \/ /\ pc'[p] = "idle"
                   /\ orders' = [orders EXCEPT ![loc[p].idx - 1].status = loc[p].status]
                   /\ result'.success
                   /\ result'.op = "update_order_status"
                   /\ result'.id = loc[p].id
                   /\ result'.status = loc[p].status
          /\ Len(orders') > Len(orders) =>
                /\ Len(orders') = Len(orders) + 1
                /\ orders'[Len(orders')].status = "pending"]_vars

\* an order went from pending to completed, and the call that sets it back to
\* pending has found its row and is about to write
C13_Witness ==
    \E p \in Desk :
        /\ pc[p] = "upd_write"
        /\ loc[p].status = "pending"
        /\ orders[loc[p].idx - 1].status = "completed"
        /\ result.op = "update_order_status" /\ result.success
        /\ result.id = loc[p].id /\ result.status = "completed"

\* C14: a booking whose time_slot is not exactly one of the five canonical
\* strings is refused as an invalid time slot, whatever its party size and
\* whatever capacity remains, and the call appends no row.
C14_InvalidSlotRejected ==
    [][\A p \in Desk, d \in Dates, s \in ReqSlots \ CanonicalSlots, n \in PartySizes :
          create_reservation_check(p, d, s, n, DefaultMaxCapacity) =>
              /\ pc'[p] = "idle"
              /\ loc'[p] = NoLoc
              /\ ~result'.success
              /\ result'.op = "create_reservation"
              /\ result'.error = "invalid_slot"
              /\ reservations' = reservations]_vars

\* a booking was refused for its time slot while 47 seats of the evening were
\* still free
C14_Witness ==
    /\ result.op = "create_reservation"
    /\ result.error = "invalid_slot"
    /\ Len(reservations) = 1
    /\ Occupied(reservations, D20, "19:00-21:00") = 3
    /\ \A p \in Procs : pc[p] = "idle"

\* the call of p returns the NotFound failure for id and touches nothing
NotFoundReturned(p, op, id) ==
    /\ result'.op = op /\ result'.caller = p
    /\ ~result'.success
    /\ result'.error = "not_found"
    /\ result'.id = id
    /\ reservations' = reservations /\ orders' = orders
    /\ pc' = pc /\ loc' = loc

\* C15: cancel_reservation and update_order_status with an identifier that no
\* row carries return the NotFound failure and write nothing: both sheets are
\* the same before and after the call.
C15_UnknownIdWritesNothing ==
    [][\A p \in Procs :
          pc[p] = "idle" =>
              /\ \A id \in MixResIds :
                    (FirstWithId(reservations, id) = 0 /\ cancel_reservation_find(p, id)) =>
                        NotFoundReturned(p, "cancel_reservation", id)
              /\ \A id \in MixOrdIds, s \in MixStatuses :
                    (FirstWithId(orders, id) = 0 /\ update_order_status_find(p, id, s)) =>
                        NotFoundReturned(p, "update_order_status", id)]_vars

\* both sheets hold rows and the last call asked for an order that is not there
C15_Witness ==
    /\ Len(reservations) >= 1 /\ Len(orders) >= 1
    /\ result.op = "update_order_status"
    /\ result.error = "not_found"
    /\ FirstWithId(orders, result.id) = 0

\* the call of p returns in this step
Returned(p) == pc'[p] = "idle" /\ (pc[p] # "idle" \/ calls' # calls)

\* C16: a call writes at most once, and only in the step in which it returns
\* success. A call that returns a failure envelope (capacity, invalid slot, not
\* found, a store read that raised) has written nothing; a successful create
\* has appended exactly one row to its own sheet; a successful cancel or status
\* update has written exactly one status cell of its own sheet; availability
\* and query calls write nothing.
C16_AtMostOneWrite ==
    [][\A p \in Desk :
          /\ ~Returned(p) => reservations' = reservations /\ orders' = orders
          /\ Returned(p) =>
                /\ result'.caller = p
                /\ ~result'.success =>
                      /\ result'.error \in {"insufficient", "invalid_slot", "not_found",
                                            "exception"}
                      /\ reservations' = reservations /\ orders' = orders
                /\ result'.success =>
                      CASE result'.op = "create_reservation" ->
                              /\ orders' = orders
                              /\ Len(reservations') = Len(reservations) + 1
                              /\ SubSeq(reservations', 1, Len(reservations)) = reservations
                              /\ reservations'[Len(reservations')].id = result'.id
                        [] result'.op = "create_order" ->
                              /\ reservations' = reservations
                              /\ Len(orders') = Len(orders) + 1
                              /\ SubSeq(orders', 1, Len(orders)) = orders
                              /\ orders'[Len(orders')].id = result'.id
                        [] result'.op = "cancel_reservation" ->
                              /\ orders' = orders
                              /\ \E k \in 1..Len(reservations) :
                                    /\ reservations[k].id = result'.id
                                    /\ reservations' =
                                          [reservations EXCEPT ![k].status = "cancelled"]
                        [] result'.op = "update_order_status" ->
                              /\ reservations' = reservations
                              /\ \E k \in 1..Len(orders) :
                                    /\ orders[k].id = result'.id
                                    /\ orders' = [orders EXCEPT ![k].status = result'.status]
                        [] OTHER ->
                              /\ result'.op \in {"query_slots", "query_reservation",
                                                 "query_order"}
                              /\ reservations' = reservations /\ orders' = orders]_vars

\* three calls: a booking and an order were stored, and a second booking whose
\* store read raised left both sheets with their one row
C16_Witness ==
    /\ calls = 3
    /\ Len(reservations) = 1 /\ Len(orders) = 1
    /\ result.op = "create_reservation"
    /\ result.error = "exception"
    /\ \A p \in Procs : pc[p] = "idle"

\* the admission check of create_reservation lets this booking through
Admitted(p, d, s, n, c) ==
    ENABLED (create_reservation_check(p, d, s, n, c) /\ pc'[p] = "res_scan")

\* C17: admission is monotone in the party size. Whenever a booking of n goes
\* past the admission check, the check on the same store and ceiling, for the
\* same date and slot, also lets every party size m <= n through.
C17_AdmissionMonotone ==
    [][\A p \in Desk :
          (pc[p] = "idle" /\ pc'[p] = "res_scan") =>
              \A d \in Dates, s \in ReqSlots, n \in PartySizes :
                  (loc'[p].date = d /\ loc'[p].slot = s /\ loc'[p].size = n) =>
                      \A m \in PartySizes :
                          m <= n => Admitted(p, d, s, m, DefaultMaxCapacity)]_vars

\* 47 seats of the evening are taken and a party of 3 went past the admission
\* check
C17_Witness ==
    /\ pc[1] = "res_scan"
    /\ loc[1].date = D20 /\ loc[1].slot = "19:00-21:00" /\ loc[1].size = 3
    /\ Occupied(reservations, D20, "19:00-21:00") = 47

\* C18: every stored reservation has a positive party size (a booking with
\* party_size <= 0 is never admitted), so the occupancy of a date and slot is
\* never negative.
C18_PositivePartySizes ==
    /\ \A i \in 1..Len(reservations) : reservations[i].size >= 1
    /\ \A d \in Dates, s \in CanonicalSlots : Occupied(reservations, d, s) >= 0

\* the status update of p writes its cell in this step
UpdateWrites(p) == pc[p] = "upd_write" /\ pc'[p] = "idle"

\* C19: under every interleaving with creations, the row index that a cancel or
\* a status update took from its snapshot refers, when the cell is written, to
\* a row that carries the requested identifier, and the write leaves every row
\* with another identifier as it was.
C19_WriteHitsRequestedRow ==
    [][\A p \in Procs :
          /\ CancelWrites(p) =>
                /\ loc[p].idx - 1 \in 1..Len(reservations)
                /\ reservations[loc[p].idx - 1].id = loc[p].id
                /\ \A i \in 1..Len(reservations) :
                      reservations[i].id # loc[p].id => reservations'[i] = reservations[i]
          /\ UpdateWrites(p) =>
                /\ loc[p].idx - 1 \in 1..Len(orders)
                /\ orders[loc[p].idx - 1].id = loc[p].id
                /\ \A i \in 1..Len(orders) :
                      orders[i].id # loc[p].id => orders'[i] = orders[i]]_vars

\* a cancel holds the row index of its snapshot while the other caller's
\* booking has been appended below the row it aims at
C19_Witness ==
    \E p, q \in Procs :
        /\ p # q
        /\ pc[p] = "cancel_write"
        /\ result.op = "create_reservation" /\ result.success /\ result.caller = q
        /\ Len(reservations) > loc[p].idx - 1
        /\ reservations[Len(reservations)].id = result.id
        /\ reservations[loc[p].idx - 1].id = loc[p].id

\* row j of rows comes after a row with the same identifier
Shadowed(rows, j) == \E i \in 1..(j - 1) : rows[i].id = rows[j].id

\* C20: a cancel or a status update changes only the status cell of the first
\* row (in sheet order) that carries the identifier, and nothing else in either
\* sheet; so a row that comes after another row with the same identifier is
\* never changed by any step, and such a reservation, while pending or
\* confirmed, stays in the occupancy reported for its date and slot.
C20_OnlyFirstRowStatus ==
    [][/\ \A p \in Procs :
             /\ CancelWrites(p) =>
                   LET k == FirstWithId(reservations, loc[p].id)
                   IN  /\ k > 0
                       /\ reservations' = [reservations EXCEPT ![k].status = "cancelled"]
                       /\ orders' = orders
             /\ UpdateWrites(p) =>
                   LET k == FirstWithId(orders, loc[p].id)
                   IN  /\ k > 0
                       /\ orders' = [orders EXCEPT ![k].status = loc[p].status]
                       /\ reservations' = reservations
       /\ \A j \in 1..Len(reservations) :
             Shadowed(reservations, j) =>
                 /\ reservations'[j] = reservations[j]
                 /\ reservations[j].status \in {"pending", "confirmed"} =>
                       Reported(reservations', reservations[j].date,
                                reservations[j].slot).occupied >= reservations[j].size
       /\ \A j \in 1..Len(orders) :
             Shadowed(orders, j) => orders'[j] = orders[j]]_vars

\* two bookings share an identifier; the cancel of that identifier succeeded,
\* the first row is cancelled, the second is confirmed and fills the slot
C20_Witness ==
    /\ Len(reservations) = 2
    /\ reservations[1].id = reservations[2].id
    /\ reservations[1].status = "cancelled"
    /\ reservations[2].status = "confirmed"
    /\ result.op = "cancel_reservation" /\ result.success
    /\ result.id = reservations[2].id
    /\ Reported(reservations, reservations[2].date, reservations[2].slot).occupied
          = reservations[2].size

====
